---- MODULE Spec2Model ----
(***************************************************************************)
(* URL shortener: the URL service (short-code allocation, ownership-       *)
(* checked mutation, resolution with click accounting) over the urls       *)
(* table, and the auth service (registration, login, bearer tokens and the *)
(* current-user dependency of the routes) over the users table.  Each      *)
(* request runs in its own database session; a request is a process whose  *)
(* steps are the stretches of code between two awaited store calls, so     *)
(* that requests interleave exactly at the store calls.                    *)
(*                                                                         *)
(* Strings that the code inspects character by character (short codes) are *)
(* sequences of one-character strings.  Optional[T] is a sequence of       *)
(* length 0 (None) or 1 (the value).                                       *)
(***************************************************************************)
EXTENDS Integers, Sequences, FiniteSets, TLC

\* ------------------------------------------------------------------ bounds
MaxIds == 2          \* URL objects constructed in one behaviour
MaxClock == 5        \* clock readings in one behaviour
MaxViews == 3        \* increment_click calls that reach the increment in one behaviour
MaxTime == 60        \* the wall clock, in minutes, stops here
MaxTokens == 2       \* distinct access tokens issued in one behaviour

\* --------------------------------------------------------- program constants
MAX_RETRIES == 5
DefaultLength == 6
MinCodeLength == 3
MaxCodeLength == 50
ACCESS_TOKEN_EXPIRE_MINUTES == 30

\* ------------------------------------------------------------- characters
LowerLetters ==
  <<"a","b","c","d","e","f","g","h","i","j","k","l","m",
    "n","o","p","q","r","s","t","u","v","w","x","y","z">>

UpperLetters ==
  <<"A","B","C","D","E","F","G","H","I","J","K","L","M",
    "N","O","P","Q","R","S","T","U","V","W","X","Y","Z">>

DigitChars == <<"0","1","2","3","4","5","6","7","8","9">>

Range(s) == {s[i] : i \in DOMAIN s}

\* str.lower() on one character, then on a string
LowerChar(c) ==
  IF \E i \in DOMAIN UpperLetters : UpperLetters[i] = c
  THEN LowerLetters[CHOOSE i \in DOMAIN UpperLetters : UpperLetters[i] = c]
  ELSE c

Lower(s) == [i \in DOMAIN s |-> LowerChar(s[i])]

\* Optional[T]
None == <<>>
Some(v) == <<v>>
IsNone(o) == Len(o) = 0
Val(o) == o[1]

\* ---------------------------------------------------------- input domains
\* the requests in flight at one time
Procs == {1, 2}
Users == {"alice", "bob"}
UpdateTitles == {None, Some("t2")}
UpdateActive == {None, Some(FALSE), Some(TRUE)}
ExampleUrl == "http://example.com/"

cSignup == <<"s","i","g","n","u","p">>
cAbc123 == <<"a","b","c","1","2","3">>
cSeven == <<"a","b","c","1","2","3","4">>
cAdmin == <<"A","d","m","i","n">>
cApi == <<"a","p","i">>
cBang == <<"a","b","!">>
cShort == <<"a","b">>

\* the strings from which generator draws and request codes are taken
CodePool == {cSignup, cAbc123, cSeven, cAdmin, cApi, cBang, cShort}

\* preferred_short_code values a create request may carry
PreferredInputs == {None} \cup {Some(c) : c \in CodePool \ {cSignup, cSeven}}

\* ---------------------------------------------------- short code generator
\* RandomShortCodeGenerator.characters
Characters ==
  (Range(LowerLetters) \cup Range(UpperLetters) \cup Range(DigitChars))
    \ {"0", "O", "I", "l"}

\* RandomShortCodeGenerator.generate: any string of that length over Characters
Generate(length) ==
  {c \in CodePool : Len(c) = length /\ \A i \in DOMAIN c : c[i] \in Characters}

\* -------------------------------------------------------- URLCreate schema
Reserved ==
  { <<"a","p","i">>, <<"a","d","m","i","n">>, <<"l","o","g","i","n">>,
    <<"s","i","g","n","u","p">>, <<"l","o","g","o","u","t">>,
    <<"d","o","c","s">>, <<"r","e","d","o","c">>, <<"a","u","t","h">> }

\* re.match(r"^[a-zA-Z0-9_-]+$", v)
MatchesPattern(v) ==
  /\ Len(v) >= 1
  /\ \A i \in DOMAIN v :
       v[i] \in Range(LowerLetters) \cup Range(UpperLetters)
                  \cup Range(DigitChars) \cup {"_", "-"}

\* Field(min_length=3, max_length=50), applied to a given string
FieldConstraints(pref) ==
  IsNone(pref) \/ (Len(Val(pref)) >= MinCodeLength /\ Len(Val(pref)) <= MaxCodeLength)

IsReservedCaseSensitive(v) == v \in Reserved

\* v.lower() in reserved
IsReserved(v) == Lower(v) \in Reserved

\* URLCreate.validate_short_code: TRUE when the value is accepted
ValidateShortCode(pref) ==
  IsNone(pref) \/ (MatchesPattern(Val(pref)) /\ ~IsReserved(Val(pref)))

\* ------------------------------------------------------------------- state
VARIABLES
  urls,        \* the urls table: a set of rows
  clock,       \* number of clock readings so far; a reading returns clock+1
  nextId,      \* ids handed out by generate_uuid so far
  recorded,    \* per row id: increment_click calls that returned the row
  pc,          \* per request: position
  op,          \* per request: the operation
  args,        \* per request: the arguments
  started,     \* increment_click calls that reached the increment
  snap,        \* per request: the ORM object in the request's session
  committed,   \* per request: that object's values as loaded from the store
  short_code,  \* create_short_url: local short_code
  attempt,     \* _generate_unique_short_code: loop variable
  length,      \* _generate_unique_short_code: local length
  draws,       \* per request: generator calls made
  lookups,     \* per request: get_by_short_code calls made
  result,      \* per request: the response
  users,       \* the users table: a set of rows
  utcnow,      \* the wall clock in minutes, as token issue and check read it
  issued,      \* the access tokens that logins have returned, with the
               \* user each was issued to and whether it was used to log out
  cred         \* per request: what the current-user dependency resolved

vars == <<urls, clock, nextId, recorded, started, pc, op, args, snap,
          committed, short_code, attempt, length, draws, lookups, result,
          users, utcnow, issued, cred>>

\* what the URL service never touches
auth == <<users, utcnow, issued, cred>>

locals == <<short_code, attempt, length>>

Ids == 1..MaxIds

NoRow ==
  [id |-> 0, original_url |-> "", short_code |-> <<>>, user_id |-> "",
   title |-> None, clicks |-> 0, is_active |-> FALSE,
   created_at |-> 0, updated_at |-> 0]

\* URLFilter with no field set; of its fields the model keeps is_active
NoFilter == [is_active |-> None]

NoArgs ==
  [user |-> "", code |-> <<>>, pref |-> None, title |-> None,
   active |-> None, original_url |-> "", email |-> "", password |-> "",
   page |-> 0, page_size |-> 0, filter |-> NoFilter]

NoUser ==
  [id |-> "", email |-> "", hashed_password |-> <<>>, is_active |-> FALSE]

\* HTTPException(status_code, detail, headers)
HTTPError(status_code, detail, headers) ==
  [status_code |-> status_code, detail |-> detail, headers |-> headers]

NoError == HTTPError(0, "", "")

\* URLListResponse: the page of rows and the total
Listing(rows, total) == [urls |-> rows, total |-> total]

NoListing == Listing(<<>>, 0)

\* a response of the authentication endpoints and dependencies
AuthResponse(kind, error, user, token) ==
  [kind |-> kind, row |-> NoRow, user |-> user, token |-> token,
   error |-> error, listing |-> NoListing]

Response(kind, row) ==
  [kind |-> kind, row |-> row, user |-> NoUser, token |-> None,
   error |-> NoError, listing |-> NoListing]

\* the response of GET /urls
ListResponse(listing) == [Response("Ok", NoRow) EXCEPT !.listing = listing]

NoCred == [route |-> "", token |-> None, user |-> NoUser]

NoResponse == Response("none", NoRow)

\* -------------------------------------------------------------- repository
\* URLRepository.get_by_short_code: the row or NoRow
GetByShortCode(code) ==
  IF \E r \in urls : r.short_code = code
  THEN CHOOSE r \in urls : r.short_code = code
  ELSE NoRow

\* the row with a primary key, or NoRow
GetById(id) ==
  IF \E r \in urls : r.id = id
  THEN CHOOSE r \in urls : r.id = id
  ELSE NoRow

UniqueViolationOff(code) == FALSE

\* urls.short_code UNIQUE: the insert of this code is refused
UniqueViolation(code) == \E r \in urls : r.short_code = code

\* URL(...): the constructor with the model's defaults
NewURL(id, original_url, code, user_id, title, t1, t2) ==
  [id |-> id, original_url |-> original_url, short_code |-> code,
   user_id |-> user_id, title |-> title, clicks |-> 0, is_active |-> TRUE,
   created_at |-> t1, updated_at |-> t2]

Init ==
  /\ urls = {}
  /\ clock = 0
  /\ nextId = 0
  /\ recorded = [i \in Ids |-> 0]
  /\ started = 0
  /\ pc = [p \in Procs |-> "idle"]
  /\ op = [p \in Procs |-> "none"]
  /\ args = [p \in Procs |-> NoArgs]
  /\ snap = [p \in Procs |-> NoRow]
  /\ committed = [p \in Procs |-> NoRow]
  /\ short_code = [p \in Procs |-> <<>>]
  /\ attempt = [p \in Procs |-> 0]
  /\ length = [p \in Procs |-> DefaultLength]
  /\ draws = [p \in Procs |-> 0]
  /\ lookups = [p \in Procs |-> 0]
  /\ result = [p \in Procs |-> NoResponse]
  /\ users = {}
  /\ utcnow = 0
  /\ issued = {}
  /\ cred = [p \in Procs |-> NoCred]

\* a request begins
Begin(p, o, a) ==
  /\ pc[p] = "idle"
  /\ op' = [op EXCEPT ![p] = o]
  /\ args' = [args EXCEPT ![p] = a]

\* a request ends with response r: its session is closed and the locals of
\* its service call are gone
Finish(p, r) ==
  /\ pc' = [pc EXCEPT ![p] = "done"]
  /\ result' = [result EXCEPT ![p] = r]
  /\ snap' = [snap EXCEPT ![p] = NoRow]
  /\ committed' = [committed EXCEPT ![p] = NoRow]
  /\ short_code' = [short_code EXCEPT ![p] = <<>>]
  /\ attempt' = [attempt EXCEPT ![p] = 0]
  /\ length' = [length EXCEPT ![p] = DefaultLength]

\* a request goes on to its next store call at position l, its session
\* holding object obj, loaded as orig
Goto(p, l, obj, orig) ==
  /\ pc' = [pc EXCEPT ![p] = l]
  /\ snap' = [snap EXCEPT ![p] = obj]
  /\ committed' = [committed EXCEPT ![p] = orig]
  /\ UNCHANGED result

\* the response is delivered and the request's slot is free again
Return(p) ==
  /\ pc[p] = "done"
  /\ pc' = [pc EXCEPT ![p] = "idle"]
  /\ op' = [op EXCEPT ![p] = "none"]
  /\ args' = [args EXCEPT ![p] = NoArgs]
  /\ result' = [result EXCEPT ![p] = NoResponse]
  /\ draws' = [draws EXCEPT ![p] = 0]
  /\ lookups' = [lookups EXCEPT ![p] = 0]
  /\ short_code' = [short_code EXCEPT ![p] = <<>>]
  /\ attempt' = [attempt EXCEPT ![p] = 0]
  /\ length' = [length EXCEPT ![p] = DefaultLength]
  /\ cred' = [cred EXCEPT ![p] = NoCred]
  /\ UNCHANGED <<urls, clock, nextId, recorded, started, snap, committed>>
  /\ UNCHANGED <<users, utcnow, issued>>

\* ------------------------------------------------------- create_short_url
\* the body of POST /urls as URLCreate accepts it: "" when accepted
SchemaError(pref) ==
  IF ~FieldConstraints(pref) THEN "length"
  ELSE IF ~IsNone(pref) /\ ~MatchesPattern(Val(pref)) THEN "pattern"
  ELSE IF ~ValidateShortCode(pref) THEN "reserved"
  ELSE ""

\* POST /urls: the body is validated by URLCreate, then create_short_url runs
\* up to its first store call
CreateStart(p, user, pref, title, orig) ==
  /\ Begin(p, "create",
           [NoArgs EXCEPT !.user = user, !.pref = pref, !.title = title,
                          !.original_url = orig])
  /\ IF SchemaError(pref) # ""
     THEN Finish(p, Response("ValidationFailed", NoRow))
     ELSE /\ Goto(p, IF ~IsNone(pref) /\ Len(Val(pref)) > 0
                     THEN "c_pref" ELSE "c_gen", NoRow, NoRow)
          /\ UNCHANGED locals
  /\ UNCHANGED <<urls, clock, nextId, recorded, started, draws, lookups>>
  /\ UNCHANGED auth

\* the lookup of the preferred code and the branch on it
CreateCheckPreferred(p) ==
  /\ pc[p] = "c_pref"
  /\ lookups' = [lookups EXCEPT ![p] = @ + 1]
  /\ IF GetByShortCode(Val(args[p].pref)) # NoRow
     THEN /\ pc' = [pc EXCEPT ![p] = "c_gen"]
          /\ UNCHANGED short_code
     ELSE /\ pc' = [pc EXCEPT ![p] = "c_insert"]
          /\ short_code' = [short_code EXCEPT ![p] = Val(args[p].pref)]
  /\ UNCHANGED <<urls, clock, nextId, recorded, started, op, args, snap,
                 committed, attempt, length, draws, result>>
  /\ UNCHANGED auth

CollidesOff(code) == FALSE

\* existing = get_by_short_code(short_code); "if not existing" fails
Collides(code) == GetByShortCode(code) # NoRow

LoopEndsLate(a) == a = MAX_RETRIES

\* for attempt in range(MAX_RETRIES): the iteration with this value of
\* attempt is the last one
LoopEnds(a) == a + 1 = MAX_RETRIES

\* one iteration of the loop of _generate_unique_short_code
GenerateAttempt(p, pool) ==
  /\ pc[p] = "c_gen"
  /\ \E code \in Generate(length[p]) \cap pool :
       /\ draws' = [draws EXCEPT ![p] = @ + 1]
       /\ lookups' = [lookups EXCEPT ![p] = @ + 1]
       /\ IF ~Collides(code)
          THEN /\ short_code' = [short_code EXCEPT ![p] = code]
               /\ pc' = [pc EXCEPT ![p] = "c_insert"]
               /\ UNCHANGED <<attempt, length, result>>
          ELSE /\ length' = [length EXCEPT ![p] =
                               IF attempt[p] = MAX_RETRIES - 1 THEN @ + 1 ELSE @]
               /\ attempt' = [attempt EXCEPT ![p] = @ + 1]
               /\ UNCHANGED short_code
               /\ IF LoopEnds(attempt[p])
                  THEN /\ pc' = [pc EXCEPT ![p] = "done"]
                       /\ result' = [result EXCEPT ![p] =
                                       Response("AllocationExhausted", NoRow)]
                  ELSE UNCHANGED <<pc, result>>
  /\ UNCHANGED <<urls, clock, nextId, recorded, started, op, args, snap,
                 committed>>
  /\ UNCHANGED auth

\* URL(...) is constructed and URLRepository.create commits it
CreateInsert(p) ==
  /\ pc[p] = "c_insert"
  /\ nextId < MaxIds
  /\ clock + 2 <= MaxClock
  /\ nextId' = nextId + 1
  /\ clock' = clock + 2
  /\ LET url == NewURL(nextId + 1, args[p].original_url, short_code[p],
                       args[p].user, args[p].title, clock + 1, clock + 2)
     IN IF UniqueViolation(url.short_code)
        THEN /\ Finish(p, Response("IntegrityError", NoRow))
             /\ UNCHANGED urls
        ELSE /\ urls' = urls \cup {url}
             /\ Finish(p, Response("Created", url))
  /\ UNCHANGED <<recorded, started, op, args, draws, lookups>>
  /\ UNCHANGED auth

\* -------------------------------------------------- get_url_by_short_code
GetUrlResponseConflated(url) ==
  IF url = NoRow \/ ~url.is_active THEN Response("NotFound", NoRow)
  ELSE Response("Ok", url)

\* URLService.get_url_by_short_code: the response for a looked-up row
GetUrlResponse(url) ==
  IF url = NoRow THEN Response("NotFound", NoRow)
  ELSE IF ~url.is_active THEN Response("Gone", NoRow)
  ELSE Response("Ok", url)

\* GET /urls/{short_code}: one store read
GetUrl(p, code) ==
  /\ Begin(p, "get", [NoArgs EXCEPT !.code = code])
  /\ lookups' = [lookups EXCEPT ![p] = @ + 1]
  /\ Finish(p, GetUrlResponse(GetByShortCode(code)))
  /\ UNCHANGED <<urls, clock, nextId, recorded, started, draws>>
  /\ UNCHANGED auth

\* GET /urls/{short_code}/stats: one store read
GetUrlStats(p, code) ==
  /\ Begin(p, "stats", [NoArgs EXCEPT !.code = code])
  /\ lookups' = [lookups EXCEPT ![p] = @ + 1]
  /\ Finish(p, GetUrlResponse(GetByShortCode(code)))
  /\ UNCHANGED <<urls, clock, nextId, recorded, started, draws>>
  /\ UNCHANGED auth

\* ------------------------------------------------------------- listings
\* URLRepository.get_by_user_id without its page window: the rows selected
\* by WHERE user_id = :user_id
RowsByUserId(user_id) == {r \in urls : r.user_id = user_id}

\* URLRepository.count_by_user_id
CountByUserId(user_id) == Cardinality(RowsByUserId(user_id))

\* ORDER BY created_at DESC
RECURSIVE NewestFirst(_)
NewestFirst(rows) ==
  IF rows = {} THEN <<>>
  ELSE LET r == CHOOSE x \in rows : \A y \in rows : y.created_at <= x.created_at
       IN <<r>> \o NewestFirst(rows \ {r})

\* OFFSET skip LIMIT limit
Window(s, skip, limit) ==
  SubSeq(s, skip + 1, IF skip + limit < Len(s) THEN skip + limit ELSE Len(s))

\* URLRepository.get_by_user_id(user_id, skip, limit), no filter passed
GetByUserId(user_id, skip, limit) ==
  Window(NewestFirst(RowsByUserId(user_id)), skip, limit)

\* URLService.get_user_urls(user_id, page, page_size): the page and the
\* total, both repository calls made without a filter
GetUserUrls(user_id, page, page_size) ==
  Listing(GetByUserId(user_id, (page - 1) * page_size, page_size),
          CountByUserId(user_id))

\* the positional arguments get_user_urls takes after self
GetUserUrlsTakes == 3

\* the positional arguments get_my_urls calls it with:
\* (current_user.id, page, page_size, url_filter)
GetMyUrlsPasses == 4

\* the query parameters of GET /urls that the model draws from
Pages == {1, 2}
PageSizes == {1, 2}
Filters == {NoFilter, [is_active |-> Some(TRUE)]}

\* GET /urls: the endpoint calls get_user_urls with one argument more than
\* it takes, the filter, so the call raises TypeError before any store call
GetMyUrls(p, user_id, page, page_size, filter) ==
  /\ Begin(p, "list", [NoArgs EXCEPT !.user = user_id, !.page = page,
                                     !.page_size = page_size,
                                     !.filter = filter])
  /\ IF GetMyUrlsPasses > GetUserUrlsTakes
     THEN Finish(p, Response("TypeError", NoRow))
     ELSE Finish(p, ListResponse(GetUserUrls(user_id, page, page_size)))
  /\ UNCHANGED <<urls, clock, nextId, recorded, started, draws, lookups>>
  /\ UNCHANGED auth

\* GET /urls/{short_code}/resolve: get_url_by_short_code and nothing else;
\* the endpoint has no dependency on the current user
Resolve(p, code) ==
  /\ cred[p] = NoCred
  /\ Begin(p, "resolve", [NoArgs EXCEPT !.code = code])
  /\ lookups' = [lookups EXCEPT ![p] = @ + 1]
  /\ Finish(p, GetUrlResponse(GetByShortCode(code)))
  /\ UNCHANGED <<urls, clock, nextId, recorded, started, draws>>
  /\ UNCHANGED auth

\* ------------------------------------------------------ ownership checks
NotOwnerOff(url, user_id) == FALSE

\* url.user_id != user_id
NotOwner(url, user_id) == url.user_id # user_id

GateResponseGone(url, user_id) ==
  IF url = NoRow THEN "NotFound"
  ELSE IF ~url.is_active THEN "Gone"
  ELSE IF NotOwner(url, user_id) THEN "Forbidden"
  ELSE ""

\* the gate shared by update_url and delete_url: "" when the caller may go on
GateResponse(url, user_id) ==
  IF url = NoRow THEN "NotFound"
  ELSE IF NotOwner(url, user_id) THEN "Forbidden"
  ELSE ""

\* ------------------------------------------------------------- update_url
ApplyUpdateOverwrite(url, title, active, now) ==
  [url EXCEPT !.title = title,
              !.is_active = IF ~IsNone(active) THEN Val(active) ELSE TRUE,
              !.updated_at = now]

\* the assignments of update_url to the loaded object
ApplyUpdate(url, title, active, now) ==
  [url EXCEPT !.title = IF ~IsNone(title) THEN title ELSE @,
              !.is_active = IF ~IsNone(active) THEN Val(active) ELSE @,
              !.updated_at = now]

\* the columns of an object that differ from their loaded values: the SET
\* list of the UPDATE that the flush emits
Dirty(obj, loaded) ==
  {c \in {"title", "clicks", "is_active", "updated_at"} : obj[c] # loaded[c]}

\* UPDATE urls SET <dirty columns> WHERE id = obj.id, on the stored row
Flush(row, obj, loaded) ==
  [c \in DOMAIN row |-> IF c \in Dirty(obj, loaded) THEN obj[c] ELSE row[c]]

\* PATCH /urls/{short_code}: update_url up to its commit
UpdateStart(p, code, user, title, active) ==
  /\ Begin(p, "update",
           [NoArgs EXCEPT !.code = code, !.user = user, !.title = title,
                          !.active = active])
  /\ lookups' = [lookups EXCEPT ![p] = @ + 1]
  /\ LET url == GetByShortCode(code)
         gate == GateResponse(url, user)
     IN IF gate # ""
        THEN /\ Finish(p, Response(gate, NoRow))
             /\ UNCHANGED clock
        ELSE /\ clock < MaxClock
             /\ clock' = clock + 1
             /\ Goto(p, "u_commit", ApplyUpdate(url, title, active, clock + 1), url)
             /\ UNCHANGED locals
  /\ UNCHANGED <<urls, nextId, recorded, started, draws>>
  /\ UNCHANGED auth

\* URLRepository.update: commit, then refresh
RepoUpdate(p) ==
  LET row == GetById(snap[p].id)
  IN IF row = NoRow
     THEN /\ Finish(p, Response("StaleDataError", NoRow))
          /\ UNCHANGED urls
     ELSE LET new == Flush(row, snap[p], committed[p])
          IN /\ urls' = (urls \ {row}) \cup {new}
             /\ Finish(p, Response("Ok", new))

UpdateCommit(p) ==
  /\ pc[p] = "u_commit"
  /\ RepoUpdate(p)
  /\ UNCHANGED <<clock, nextId, recorded, started, op, args, draws, lookups>>
  /\ UNCHANGED auth

\* ------------------------------------------------------------- delete_url
\* DELETE /urls/{short_code}: delete_url up to its commit
DeleteStart(p, code, user) ==
  /\ Begin(p, "delete", [NoArgs EXCEPT !.code = code, !.user = user])
  /\ lookups' = [lookups EXCEPT ![p] = @ + 1]
  /\ LET url == GetByShortCode(code)
         gate == GateResponse(url, user)
     IN IF gate # ""
        THEN Finish(p, Response(gate, NoRow))
        ELSE /\ Goto(p, "d_commit", url, url)
             /\ UNCHANGED locals
  /\ UNCHANGED <<urls, clock, nextId, recorded, started, draws>>
  /\ UNCHANGED auth

DeleteSoft(url) ==
  {IF r.id = url.id THEN [r EXCEPT !.is_active = FALSE] ELSE r : r \in urls}

\* session.delete(url), commit: DELETE FROM urls WHERE id = url.id.  A row
\* that is already gone makes the statement match nothing, which the ORM
\* reports as a warning, not as an error.
DeleteRow(url) == {r \in urls : r.id # url.id}

\* URLRepository.delete
DeleteCommit(p) ==
  /\ pc[p] = "d_commit"
  /\ urls' = DeleteRow(snap[p])
  /\ Finish(p, Response("NoContent", NoRow))
  /\ UNCHANGED <<clock, nextId, recorded, started, op, args, draws, lookups>>
  /\ UNCHANGED auth

\* -------------------------------------------------------- increment_click
\* url.clicks += 1 on the loaded object
IncrementLocal(url) == [url EXCEPT !.clicks = @ + 1]

\* increment_click: get_url_by_short_code, then increment_clicks up to its commit
ViewStart(p, code) ==
  /\ Begin(p, "view", [NoArgs EXCEPT !.code = code])
  /\ lookups' = [lookups EXCEPT ![p] = @ + 1]
  /\ LET url == GetByShortCode(code)
         r == GetUrlResponse(url)
     IN IF r.kind # "Ok"
        THEN /\ Finish(p, r)
             /\ UNCHANGED started
        ELSE /\ started < MaxViews
             /\ started' = started + 1
             /\ Goto(p, "v_commit", IncrementLocal(url), url)
             /\ UNCHANGED locals
  /\ UNCHANGED <<urls, clock, nextId, recorded, draws>>
  /\ UNCHANGED auth

ViewCommit(p) ==
  /\ pc[p] = "v_commit"
  /\ RepoUpdate(p)
  /\ recorded' = IF GetById(snap[p].id) # NoRow
                 THEN [recorded EXCEPT ![snap[p].id] = @ + 1]
                 ELSE recorded
  /\ UNCHANGED <<clock, nextId, started, op, args, draws, lookups>>
  /\ UNCHANGED auth

\* ------------------------------------------------------------- security
Emails == {"a@example.com", "b@example.com"}
Passwords == {"testpassword123", "wrongpassword"}
Salts == {"salt1"}
TickSteps == {15}

\* settings.SECRET_KEY
SECRET_KEY == "your-secret-key-change-this-in-production"

\* PasswordHasher.hash with the salt that gensalt drew: the digest holds the
\* salt and depends on the password
Hash(password, salt) == <<"$2b$12$", salt, password>>

\* PasswordHasher.verify: the digest recomputed with the stored salt; a
\* malformed digest verifies as False
Verify(plain_password, hashed_password) ==
  /\ Len(hashed_password) = 3
  /\ Hash(plain_password, hashed_password[2]) = hashed_password

\* TokenManager.create_access_token(data={"sub": sub}) at time t
CreateAccessToken(sub, t) ==
  [wellformed |-> TRUE, key |-> SECRET_KEY, sub |-> Some(sub),
   exp |-> t + ACCESS_TOKEN_EXPIRE_MINUTES]

NeverExpired(token, t) == FALSE

\* jwt.decode's check of the exp claim at time t
Expired(token, t) == token.exp < t

\* TokenManager.decode_token at time t: the payload, or None on JWTError
DecodeToken(token, t) ==
  IF ~token.wellformed \/ token.key # SECRET_KEY \/ Expired(token, t)
  THEN None
  ELSE Some([sub |-> token.sub, exp |-> token.exp])

\* tokens that no login of this service returned: not a JWT; signed with
\* another key; signed with the key but without a subject; signed with the
\* key for an email that never registers
GarbageToken == [wellformed |-> FALSE, key |-> "", sub |-> None, exp |-> 0]

ForeignKeyToken ==
  [wellformed |-> TRUE, key |-> "other-key", sub |-> Some("a@example.com"),
   exp |-> MaxTime + ACCESS_TOKEN_EXPIRE_MINUTES]

NoSubjectToken ==
  [wellformed |-> TRUE, key |-> SECRET_KEY, sub |-> None,
   exp |-> MaxTime + ACCESS_TOKEN_EXPIRE_MINUTES]

StrangerToken ==
  [wellformed |-> TRUE, key |-> SECRET_KEY, sub |-> Some("c@example.com"),
   exp |-> MaxTime + ACCESS_TOKEN_EXPIRE_MINUTES]

ForgedTokens == {GarbageToken, ForeignKeyToken, NoSubjectToken, StrangerToken}

\* the Authorization header of a request: absent, or a bearer token
Credentials(forged) ==
  {None} \cup {Some(t) : t \in forged \cup {i.token : i \in issued}}

\* -------------------------------------------------------- user repository
GetByEmailAny(email) ==
  IF users # {} THEN CHOOSE u \in users : TRUE ELSE NoUser

\* UserRepository.get_by_email: the row or NoUser
GetByEmail(email) ==
  IF \E u \in users : u.email = email
  THEN CHOOSE u \in users : u.email = email
  ELSE NoUser

\* UserRepository.get_by_id: the row or NoUser
GetUserById(user_id) ==
  IF \E u \in users : u.id = user_id
  THEN CHOOSE u \in users : u.id = user_id
  ELSE NoUser

\* users.email UNIQUE: the insert of this email is refused
EmailUniqueViolation(email) == \E u \in users : u.email = email

NewUserInactive(id, email, hashed_password) ==
  [id |-> id, email |-> email, hashed_password |-> hashed_password,
   is_active |-> FALSE]

\* User(email=..., hashed_password=...) with the model's defaults; the two
\* timestamp columns, which nothing reads, are left out
NewUser(id, email, hashed_password) ==
  [id |-> id, email |-> email, hashed_password |-> hashed_password,
   is_active |-> TRUE]

\* UserResponse(id, email, is_active, ...): the hash is left out
UserResponse(user) == [user EXCEPT !.hashed_password = <<>>]

\* ----------------------------------------------------------- auth service
EmailRegisteredError == HTTPError(400, "Email already registered", "")

ExistsOff(user) == FALSE

\* "if existing_user"
Exists(user) == user # NoUser

\* POST /auth/signup: register_user up to its insert
RegisterStart(p, email, password) ==
  /\ cred[p] = NoCred
  /\ Begin(p, "register",
           [NoArgs EXCEPT !.email = email, !.password = password])
  /\ IF Exists(GetByEmail(email))
     THEN Finish(p, AuthResponse("Conflict", EmailRegisteredError, NoUser, None))
     ELSE /\ Goto(p, "r_insert", NoRow, NoRow)
          /\ UNCHANGED locals
  /\ UNCHANGED <<urls, clock, nextId, recorded, started, draws, lookups>>
  /\ UNCHANGED auth

\* the password is hashed, User(...) is constructed with an id out of ids
\* and UserRepository.create commits it
RegisterInsert(p, ids) ==
  /\ pc[p] = "r_insert"
  /\ \E salt \in Salts, id \in ids :
       LET user == NewUser(id, args[p].email, Hash(args[p].password, salt))
       IN IF EmailUniqueViolation(user.email)
          THEN /\ Finish(p, AuthResponse("IntegrityError", NoError, NoUser, None))
               /\ UNCHANGED users
          ELSE /\ id \notin {u.id : u \in users}
               /\ users' = users \cup {user}
               /\ Finish(p, AuthResponse("Created", NoError, UserResponse(user), None))
  /\ UNCHANGED <<urls, clock, nextId, recorded, started, op, args, draws,
                 lookups, utcnow, issued, cred>>

UnknownUserErrorTelling ==
  HTTPError(401, "User not found", "WWW-Authenticate: Bearer")

\* authenticate_user: the error raised when no user has the email
UnknownUserError ==
  HTTPError(401, "Incorrect username or password", "WWW-Authenticate: Bearer")

\* authenticate_user: the error raised when the password does not verify
WrongPasswordError ==
  HTTPError(401, "Incorrect username or password", "WWW-Authenticate: Bearer")

InactiveUserError == HTTPError(400, "Inactive user", "")

AuthenticateUserActiveFirst(email, password, t) ==
  LET user == GetByEmail(email)
  IN IF ~Exists(user)
     THEN AuthResponse("Unauthorized", UnknownUserError, NoUser, None)
     ELSE IF ~user.is_active
     THEN AuthResponse("InactiveAccount", InactiveUserError, NoUser, None)
     ELSE IF ~Verify(password, user.hashed_password)
     THEN AuthResponse("Unauthorized", WrongPasswordError, NoUser, None)
     ELSE AuthResponse("Ok", NoError, NoUser,
                       Some(CreateAccessToken(user.email, t)))

\* AuthService.authenticate_user at time t: the response
AuthenticateUser(email, password, t) ==
  LET user == GetByEmail(email)
  IN IF ~Exists(user)
     THEN AuthResponse("Unauthorized", UnknownUserError, NoUser, None)
     ELSE IF ~Verify(password, user.hashed_password)
     THEN AuthResponse("Unauthorized", WrongPasswordError, NoUser, None)
     ELSE IF ~user.is_active
     THEN AuthResponse("InactiveAccount", InactiveUserError, NoUser, None)
     ELSE AuthResponse("Ok", NoError, NoUser,
                       Some(CreateAccessToken(user.email, t)))

\* POST /auth/login
Login(p, email, password) ==
  /\ cred[p] = NoCred
  /\ Begin(p, "login", [NoArgs EXCEPT !.email = email, !.password = password])
  /\ LET r == AuthenticateUser(email, password, utcnow)
         i == [token |-> Val(r.token), user |-> GetByEmail(email).id,
               loggedout |-> FALSE]
     IN /\ Finish(p, r)
        /\ IF r.kind = "Ok"
           THEN /\ \/ \E j \in issued : j.token = i.token
                   \/ Cardinality(issued) < MaxTokens
                /\ issued' = IF \E j \in issued : j.token = i.token
                             THEN issued ELSE issued \cup {i}
           ELSE UNCHANGED issued
  /\ UNCHANGED <<urls, clock, nextId, recorded, started, draws, lookups,
                 users, utcnow, cred>>

CredentialsException ==
  HTTPError(401, "Could not validate credentials", "WWW-Authenticate: Bearer")

GetCurrentUserById(token, t) ==
  LET payload == DecodeToken(token, t)
      refused == AuthResponse("Unauthorized", CredentialsException, NoUser, None)
  IN IF IsNone(payload) THEN refused
     ELSE IF IsNone(Val(payload).sub) THEN refused
     ELSE IF GetUserById(Val(Val(payload).sub)) = NoUser THEN refused
     ELSE AuthResponse("Ok", NoError, GetUserById(Val(Val(payload).sub)), None)

\* AuthService.get_current_user at time t: the response
GetCurrentUser(token, t) ==
  LET payload == DecodeToken(token, t)
      refused == AuthResponse("Unauthorized", CredentialsException, NoUser, None)
  IN IF IsNone(payload) THEN refused
     ELSE IF IsNone(Val(payload).sub) THEN refused
     ELSE IF GetByEmail(Val(Val(payload).sub)) = NoUser THEN refused
     ELSE AuthResponse("Ok", NoError, GetByEmail(Val(Val(payload).sub)), None)

\* ----------------------------------------------------------- dependencies
\* HTTPBearer(): the error raised when the request has no bearer credentials
NotAuthenticatedError == HTTPError(403, "Not authenticated", "")

GetCurrentActiveUserLax(credentials, t) ==
  IF IsNone(credentials) \/ GetCurrentUser(Val(credentials), t).kind # "Ok"
  THEN AuthResponse("Ok", NoError,
                    IF users # {} THEN UserResponse(CHOOSE u \in users : TRUE)
                    ELSE UserResponse(NewUser("anonymous", "", <<>>)),
                    None)
  ELSE AuthResponse("Ok", NoError,
                    UserResponse(GetCurrentUser(Val(credentials), t).user), None)

\* get_current_active_user over get_current_user over HTTPBearer, at time t:
\* the current user, or the error that ends the request
GetCurrentActiveUser(credentials, t) ==
  IF IsNone(credentials)
  THEN AuthResponse("NotAuthenticated", NotAuthenticatedError, NoUser, None)
  ELSE LET r == GetCurrentUser(Val(credentials), t)
       IN IF r.kind # "Ok" THEN r
          ELSE IF ~r.user.is_active
          THEN AuthResponse("InactiveAccount", InactiveUserError, NoUser, None)
          ELSE AuthResponse("Ok", NoError, UserResponse(r.user), None)

\* a request to a route that depends on get_current_active_user: the
\* dependency is resolved, with its own read of the users table, before the
\* endpoint's body runs; an error ends the request there
Authorize(p, route, credentials) ==
  /\ pc[p] = "idle"
  /\ cred[p] = NoCred
  /\ LET r == GetCurrentActiveUser(credentials, utcnow)
     IN /\ cred' = [cred EXCEPT ![p] =
                      [route |-> route, token |-> credentials, user |-> r.user]]
        /\ IF r.kind # "Ok"
           THEN /\ Begin(p, route, NoArgs)
                /\ Finish(p, r)
           ELSE UNCHANGED <<pc, op, args, result, snap, committed, locals>>
  /\ UNCHANGED <<urls, clock, nextId, recorded, started, draws, lookups,
                 users, utcnow, issued>>

\* the dependency of request p resolved to a user and the body of the
\* endpoint of this route is about to run
Authorized(p, route) ==
  /\ pc[p] = "idle"
  /\ cred[p].route = route
  /\ cred[p].user # NoUser

\* GET /auth/me: the body returns the current user
Me(p) ==
  /\ Authorized(p, "me")
  /\ Begin(p, "me", NoArgs)
  /\ Finish(p, AuthResponse("Ok", NoError, cred[p].user, None))
  /\ UNCHANGED <<urls, clock, nextId, recorded, started, draws, lookups>>
  /\ UNCHANGED auth

LogoutDeactivates(user) ==
  {IF u.id = user.id THEN [u EXCEPT !.is_active = FALSE] ELSE u : u \in users}

\* the users table after the body of logout, which only builds a message
LogoutUsers(user) == users

\* POST /auth/logout
Logout(p) ==
  /\ Authorized(p, "logout")
  /\ Begin(p, "logout", NoArgs)
  /\ Finish(p, AuthResponse("Ok", NoError, NoUser, None))
  /\ users' = LogoutUsers(cred[p].user)
  /\ issued' = {IF Some(i.token) = cred[p].token
                THEN [i EXCEPT !.loggedout = TRUE] ELSE i : i \in issued}
  /\ UNCHANGED <<urls, clock, nextId, recorded, started, draws, lookups,
                 utcnow, cred>>

\* the routes of the URL router that depend on get_current_active_user
UrlRoutes == {"create", "list", "get", "stats", "update", "delete"}

\* the bodies of those endpoints: the URL service is called with
\* current_user.id
ApiCreate(p, pref, title, orig) ==
  /\ Authorized(p, "create")
  /\ CreateStart(p, cred[p].user.id, pref, title, orig)

ApiList(p, page, page_size, filter) ==
  /\ Authorized(p, "list")
  /\ GetMyUrls(p, cred[p].user.id, page, page_size, filter)

ApiGet(p, code) ==
  /\ Authorized(p, "get")
  /\ GetUrl(p, code)

ApiStats(p, code) ==
  /\ Authorized(p, "stats")
  /\ GetUrlStats(p, code)

ApiUpdate(p, code, title, active) ==
  /\ Authorized(p, "update")
  /\ UpdateStart(p, code, cred[p].user.id, title, active)

ApiDelete(p, code) ==
  /\ Authorized(p, "delete")
  /\ DeleteStart(p, code, cred[p].user.id)

\* time passes
Tick(d) ==
  /\ utcnow + d <= MaxTime
  /\ utcnow' = utcnow + d
  /\ UNCHANGED <<urls, clock, nextId, recorded, started, pc, op, args, snap,
                 committed, short_code, attempt, length, draws, lookups,
                 result, users, issued, cred>>

\* ---------------------------------------------------------- specification
\* every operation that writes, two owners, one short code in play, codes
\* drawn at random (preferred codes are in SpecAlloc)
Next ==
  \/ \E p \in Procs, user \in Users :
       CreateStart(p, user, None, None, ExampleUrl)
  \/ \E p \in Procs : GenerateAttempt(p, {cAbc123})
  \/ \E p \in Procs : CreateInsert(p)
  \/ \E p \in Procs, user \in Users :
       UpdateStart(p, cAbc123, user, None, Some(FALSE))
  \/ \E p \in Procs : UpdateCommit(p)
  \/ \E p \in Procs, user \in Users : DeleteStart(p, cAbc123, user)
  \/ \E p \in Procs : DeleteCommit(p)
  \/ \E p \in Procs : ViewStart(p, cAbc123)
  \/ \E p \in Procs : ViewCommit(p)
  \/ \E p \in Procs : Return(p)

Spec == Init /\ [][Next]_vars

\* allocation: creates with every kind of preferred code, and deletes
NextAlloc ==
  \/ \E p \in Procs, user \in Users, pref \in PreferredInputs :
       CreateStart(p, user, pref, None, ExampleUrl)
  \/ \E p \in Procs : CreateCheckPreferred(p)
  \/ \E p \in Procs : GenerateAttempt(p, {cAbc123, cSignup, cSeven})
  \/ \E p \in Procs : CreateInsert(p)
  \/ \E p \in Procs, user \in Users : DeleteStart(p, cAbc123, user)
  \/ \E p \in Procs : DeleteCommit(p)
  \/ \E p \in Procs : Return(p)

SpecAlloc == Init /\ [][NextAlloc]_vars

\* partial update: the owner's updates of one URL with every payload, and views
NextOwner ==
  \/ \E p \in Procs :
       CreateStart(p, "alice", None, Some("t1"), ExampleUrl)
  \/ \E p \in Procs : GenerateAttempt(p, {cAbc123})
  \/ \E p \in Procs : CreateInsert(p)
  \/ \E p \in Procs, title \in UpdateTitles, active \in UpdateActive :
       UpdateStart(p, cAbc123, "alice", title, active)
  \/ \E p \in Procs : UpdateCommit(p)
  \/ \E p \in Procs : ViewStart(p, cAbc123)
  \/ \E p \in Procs : ViewCommit(p)
  \/ \E p \in Procs : Return(p)

SpecOwner == Init /\ [][NextOwner]_vars

\* the gates: a URL of either user, looked up, resolved, (de)activated and
\* deleted by both
NextGate ==
  \/ \E p \in Procs, user \in Users :
       CreateStart(p, user, None, None, ExampleUrl)
  \/ \E p \in Procs : GenerateAttempt(p, {cAbc123})
  \/ \E p \in Procs : CreateInsert(p)
  \/ \E p \in Procs : GetUrl(p, cAbc123)
  \/ \E p \in Procs : Resolve(p, cAbc123)
  \/ \E p \in Procs, user \in Users, active \in {Some(FALSE), Some(TRUE)} :
       UpdateStart(p, cAbc123, user, None, active)
  \/ \E p \in Procs : UpdateCommit(p)
  \/ \E p \in Procs, user \in Users : DeleteStart(p, cAbc123, user)
  \/ \E p \in Procs : DeleteCommit(p)
  \/ \E p \in Procs : Return(p)

SpecGate == Init /\ [][NextGate]_vars

\* deactivation and reactivation: the owner switches one URL off and on
\* while it is viewed and looked up
NextReactivate ==
  \/ \E p \in Procs : CreateStart(p, "alice", None, None, ExampleUrl)
  \/ \E p \in Procs : GenerateAttempt(p, {cAbc123})
  \/ \E p \in Procs : CreateInsert(p)
  \/ \E p \in Procs, active \in {Some(FALSE), Some(TRUE)} :
       UpdateStart(p, cAbc123, "alice", None, active)
  \/ \E p \in Procs : UpdateCommit(p)
  \/ \E p \in Procs : ViewStart(p, cAbc123)
  \/ \E p \in Procs : ViewCommit(p)
  \/ \E p \in Procs : GetUrl(p, cAbc123)
  \/ \E p \in Procs : Return(p)

SpecReactivate == Init /\ [][NextReactivate]_vars

\* accounts: concurrent registrations and logins
NextAuth ==
  \/ \E p \in Procs, email \in Emails :
       RegisterStart(p, email, "testpassword123")
  \/ \E p \in Procs : RegisterInsert(p, Users)
  \/ \E p \in Procs, email \in Emails, password \in Passwords :
       Login(p, email, password)
  \/ \E p \in Procs : Return(p)

SpecAuth == Init /\ [][NextAuth]_vars

\* tokens: logins, then requests that present credentials, as time passes;
\* the requests are served one after the other
NextToken ==
  \/ \E email \in Emails : RegisterStart(1, email, "testpassword123")
  \/ RegisterInsert(1, Users)
  \/ \E email \in Emails : Login(1, email, "testpassword123")
  \/ \E route \in {"me", "logout"}, credentials \in Credentials(ForgedTokens) :
       Authorize(1, route, credentials)
  \/ Me(1)
  \/ Logout(1)
  \/ \E d \in TickSteps : Tick(d)
  \/ Return(1)

SpecToken == Init /\ [][NextToken]_vars

\* the users table as the service may find it when it starts: accounts
\* registered earlier with AccountPassword, any of them deactivated in the
\* database since (is_active is a column that no endpoint writes)
AccountPassword == "testpassword123"

AccountTables ==
  LET id(email) == IF email = "a@example.com" THEN "alice" ELSE "bob"
      rows == {[NewUser(id(email), email, Hash(AccountPassword, salt))
                  EXCEPT !.is_active = active] :
                 email \in Emails, salt \in Salts, active \in BOOLEAN}
  IN {t \in SUBSET rows : \A u, v \in t : u.email = v.email => u = v}

InitAccounts ==
  /\ urls = {}
  /\ clock = 0
  /\ nextId = 0
  /\ recorded = [i \in Ids |-> 0]
  /\ started = 0
  /\ pc = [p \in Procs |-> "idle"]
  /\ op = [p \in Procs |-> "none"]
  /\ args = [p \in Procs |-> NoArgs]
  /\ snap = [p \in Procs |-> NoRow]
  /\ committed = [p \in Procs |-> NoRow]
  /\ short_code = [p \in Procs |-> <<>>]
  /\ attempt = [p \in Procs |-> 0]
  /\ length = [p \in Procs |-> DefaultLength]
  /\ draws = [p \in Procs |-> 0]
  /\ lookups = [p \in Procs |-> 0]
  /\ result = [p \in Procs |-> NoResponse]
  /\ users \in AccountTables
  /\ utcnow = 0
  /\ issued = {}
  /\ cred = [p \in Procs |-> NoCred]

\* logins against such a table, with the right and a wrong password, as
\* time passes
NextLogin ==
  \/ \E p \in Procs, email \in Emails, password \in Passwords :
       Login(p, email, password)
  \/ \E d \in TickSteps : Tick(d)
  \/ \E p \in Procs : Return(p)

SpecLogin == InitAccounts /\ [][NextLogin]_vars

\* the URL router behind the current-user dependency: the requests of a
\* client that signs up and logs in (slot 1), with and without its tokens as
\* they age, next to those of a client without credentials (slot 2)
NextApi ==
  \/ RegisterStart(1, "a@example.com", "testpassword123")
  \/ RegisterInsert(1, {"alice"})
  \/ Login(1, "a@example.com", "testpassword123")
  \/ \E route \in UrlRoutes, credentials \in Credentials({GarbageToken}) :
       Authorize(1, route, credentials)
  \/ ApiCreate(1, None, None, ExampleUrl)
  \/ GenerateAttempt(1, {cAbc123})
  \/ CreateInsert(1)
  \/ \E page \in Pages, page_size \in PageSizes, filter \in Filters :
       ApiList(1, page, page_size, filter)
  \/ ApiGet(1, cAbc123)
  \/ ApiStats(1, cAbc123)
  \/ ApiUpdate(1, cAbc123, None, Some(FALSE))
  \/ UpdateCommit(1)
  \/ ApiDelete(1, cAbc123)
  \/ DeleteCommit(1)
  \/ Resolve(1, cAbc123)
  \/ \E route \in UrlRoutes : Authorize(2, route, None)
  \/ Resolve(2, cAbc123)
  \/ \E d \in TickSteps : Tick(d)
  \/ \E p \in Procs : Return(p)

SpecApi == Init /\ [][NextApi]_vars

\* ------------------------------------------------------------------ claims
Done(p, o) == pc[p] = "done" /\ op[p] = o

\* the step in which request p, idle before, is served as operation o
Serves(p, o) == pc[p] = "idle" /\ op'[p] = o

StoredCodes == {r.short_code : r \in urls}

\* C1: no two stored ShortURLs have the same short code, whoever owns them.
C1_UniqueShortCodes ==
  \A r1, r2 \in urls : r1.short_code = r2.short_code => r1 = r2

\* a create lost at the uniqueness constraint to a row of another owner
C1_Witness ==
  \E p \in Procs :
    /\ Done(p, "create")
    /\ result[p].kind = "IntegrityError"
    /\ \E r \in urls : r.user_id # args[p].user

\* C2: the stored click counter of a row equals the number of recordView
\* calls that returned it (N calls raise it by N: no lost update).
C2_NoLostViews == \A r \in urls : r.clicks = recorded[r.id]

\* C3: a create request that found its code free never ends at the store's
\* uniqueness constraint: the loser retries and ends with a persisted row.
C3_LoserRetries ==
  \A p \in Procs :
    Done(p, "create") /\ result[p].kind \notin {"ValidationFailed", "AllocationExhausted"}
      => result[p].kind = "Created"

\* C4: update and delete by a caller who is not the stored row's owner end
\* with Forbidden in that step and leave the table as it was.
C4_NonOwnerForbidden ==
  [][\A p \in Procs :
       /\ Serves(p, "update") \/ Serves(p, "delete")
       /\ \E r \in urls : r.short_code = args'[p].code /\ r.user_id # args'[p].user
       => /\ pc'[p] = "done"
          /\ result'[p].kind = "Forbidden"
          /\ urls' = urls]_vars

\* an update and a delete were both refused while the row is stored
C4_Witness ==
  \E p, q \in Procs :
    /\ Done(p, "update") /\ result[p].kind = "Forbidden"
    /\ Done(q, "delete") /\ result[q].kind = "Forbidden"
    /\ \E r \in urls : r.short_code = args[p].code /\ r.user_id # args[p].user

\* C5: getByCode answers NotFound exactly when no row has the code, Gone
\* exactly when the row is inactive, and the row itself otherwise.
C5_GetByCode ==
  [][\A p \in Procs :
       Serves(p, "get") =>
         LET code == args'[p].code
             k == result'[p].kind
         IN /\ k \in {"NotFound", "Gone", "Ok"}
            /\ k = "NotFound" <=> code \notin StoredCodes
            /\ k = "Gone" <=> \E r \in urls : r.short_code = code /\ ~r.is_active
            /\ k = "Ok" => /\ result'[p].row \in urls
                           /\ result'[p].row.short_code = code
                           /\ result'[p].row.is_active]_vars

\* one get answered Gone and one answered NotFound
C5_Witness ==
  \E p, q \in Procs :
    /\ Done(p, "get") /\ result[p].kind = "Gone"
    /\ Done(q, "get") /\ result[q].kind = "NotFound"

\* a create whose preferred code was free at its check: one lookup, no draw
PreferredWasFree(p) ==
  /\ Done(p, "create")
  /\ ~IsNone(args[p].pref)
  /\ lookups[p] = 1
  /\ draws[p] = 0

\* C6: a create whose preferred code was free at the check persists a
\* ShortURL with that code.
C6_PreferredFreeIsUsed ==
  \A p \in Procs :
    PreferredWasFree(p) =>
      /\ result[p].kind = "Created"
      /\ result[p].row.short_code = Val(args[p].pref)

\* a create whose preferred code was taken at its check: it drew
FellBack(p) == Done(p, "create") /\ ~IsNone(args[p].pref) /\ draws[p] >= 1

C8_NoReservedStored == \A r \in urls : Lower(r.short_code) \notin Reserved

\* C9: a create whose preferred code is a reserved word in any letter case is
\* rejected by validation: it makes no lookup and no draw and is never at a
\* position from which it could persist.
C9_ReservedRejected ==
  \A p \in Procs :
    op[p] = "create" /\ ~IsNone(args[p].pref)
      /\ Lower(Val(args[p].pref)) \in Reserved
      => /\ pc[p] = "done"
         /\ result[p].kind = "ValidationFailed"
         /\ lookups[p] = 0
         /\ draws[p] = 0

\* a reserved word in upper and lower case was rejected
C9_Witness ==
  \E p \in Procs :
    /\ Done(p, "create")
    /\ args[p].pref = Some(cAdmin)
    /\ result[p].kind = "ValidationFailed"

\* C10: a successful owner update changes, of the stored row, only title and
\* is_active where the payload carries them (to the payload's value), and
\* updated_at; every other column and every other row keeps its value.
C10_UpdateFrame ==
  [][\A p \in Procs :
       pc[p] = "u_commit" /\ pc'[p] = "done" /\ result'[p].kind = "Ok" =>
         LET old == GetById(snap[p].id)
             new == result'[p].row
         IN /\ old \in urls
            /\ urls' = (urls \ {old}) \cup {new}
            /\ \A c \in {"id", "short_code", "original_url", "user_id",
                         "clicks", "created_at"} : new[c] = old[c]
            /\ IsNone(args[p].title) => new.title = old.title
            /\ new.title # old.title => new.title = args[p].title
            /\ IsNone(args[p].active) => new.is_active = old.is_active
            /\ new.is_active # old.is_active => new.is_active = Val(args[p].active)
            /\ new.updated_at # old.updated_at]_vars

\* an update without a title went through on a titled row that had been viewed
C10_Witness ==
  \E p \in Procs :
    /\ Done(p, "update")
    /\ result[p].kind = "Ok"
    /\ IsNone(args[p].title)
    /\ args[p].active = Some(FALSE)
    /\ result[p].row.title = Some("t1")
    /\ result[p].row.clicks > 0
    /\ ~result[p].row.is_active

\* C11 as stated: a delete that succeeded leaves no row with that code (a
\* lookup of the code answers NotFound), the owner's listing and count lose
\* the URL, and every other row is as before; a delete of an absent code
\* answers NotFound.
C11_DeleteThenNotFound ==
  [][\A p \in Procs :
       /\ pc[p] = "d_commit" /\ pc'[p] = "done" =>
            /\ result'[p].kind = "NoContent"
            /\ GetUrlResponse(GetByShortCode(args[p].code))'.kind = "NotFound"
            /\ snap[p].id \notin {r.id : r \in RowsByUserId(args[p].user)'}
            /\ \A r \in urls : r.id # snap[p].id => r \in urls'
            /\ urls' \subseteq urls
       /\ Serves(p, "delete") /\ args'[p].code \notin StoredCodes =>
            /\ result'[p].kind = "NotFound"
            /\ urls' = urls]_vars

\* C11 as amended: a delete that succeeded leaves no row with the id of the
\* row it looked up; that row, if still stored, was the only row removed, so
\* the owner's count drops by one exactly then and every other row is as
\* before.  A row that has the code afterwards is a newer row, created
\* after the delete's lookup.  A delete of an absent code answers NotFound.
C11_Delete ==
  [][\A p \in Procs :
       /\ pc[p] = "d_commit" /\ pc'[p] = "done" =>
            /\ result'[p].kind = "NoContent"
            /\ \A r \in urls' : r.id # snap[p].id
            /\ urls' = urls \ {GetById(snap[p].id)}
            /\ CountByUserId(args[p].user)' =
                 CountByUserId(args[p].user)
                   - (IF GetById(snap[p].id) # NoRow THEN 1 ELSE 0)
            /\ \A r \in urls' :
                 r.short_code = args[p].code => r.created_at > snap[p].created_at
       /\ Serves(p, "delete") /\ args'[p].code \notin StoredCodes =>
            /\ pc'[p] = "done"
            /\ result'[p].kind = "NotFound"
            /\ urls' = urls]_vars

\* an owner's delete went through while a row with another code stays
\* stored, and a delete of the then absent code was answered NotFound
C11_Witness ==
  \E p, q \in Procs :
    /\ Done(p, "delete") /\ result[p].kind = "NoContent"
    /\ Done(q, "delete") /\ result[q].kind = "NotFound"
    /\ args[p].code \notin StoredCodes
    /\ urls # {}

\* C12: the click counter of a stored row never decreases while the row is
\* stored, and it changes only in the commit of a recordView call.
C12_ClicksOnlyGrow ==
  [][/\ \A r \in urls, s \in urls' : r.id = s.id => s.clicks >= r.clicks
     /\ (\E r \in urls, s \in urls' : r.id = s.id /\ s.clicks # r.clicks)
          => \E p \in Procs : op[p] = "view" /\ pc[p] = "v_commit"
                               /\ pc'[p] = "done"]_vars

\* C13: a resolve request answered with the URL records a view: the stored
\* click counter of that URL is one higher after the request than before.
C13_ResolveRecordsView ==
  [][\A p \in Procs :
       Serves(p, "resolve") /\ result'[p].kind = "Ok" =>
         \E r \in urls, s \in urls' :
           /\ r.short_code = args'[p].code
           /\ s.id = r.id
           /\ s.clicks = r.clicks + 1]_vars

StoredEmails == {u.email : u \in users}

\* C14: a register call for an email that a stored user has ends with
\* Conflict in that step and leaves the users table as it was.
C14_DuplicateEmailConflict ==
  [][\A p \in Procs :
       Serves(p, "register") /\ args'[p].email \in StoredEmails =>
         /\ pc'[p] = "done"
         /\ result'[p].kind = "Conflict"
         /\ result'[p].user = NoUser
         /\ users' = users]_vars

\* a registration was answered Conflict while the email's first user is stored
C14_Witness ==
  \E p \in Procs :
    /\ Done(p, "register")
    /\ result[p].kind = "Conflict"
    /\ Cardinality({u \in users : u.email = args[p].email}) = 1

\* C15: every register call ends with a created user or with Conflict, also
\* the one that loses at the unique-email constraint.
C15_RegisterCreatedOrConflict ==
  \A p \in Procs :
    Done(p, "register") => result[p].kind \in {"Created", "Conflict"}

\* a login that must fail: no stored user has the email, or the stored
\* user's password does not verify
NoSuchUser(email) == email \notin StoredEmails

BadPassword(email, password) ==
  \E u \in users : u.email = email /\ ~Verify(password, u.hashed_password)

\* what the caller of a failed request observes
Observed(r) == <<r.kind, r.error, r.user, r.token>>

\* C16: authenticate answers with one and the same error, Unauthorized with
\* the same status, message and headers, when no user has the email and
\* when the password of the stored user does not verify.
C16_SameLoginError ==
  [][\A p, q \in Procs :
       /\ Serves(p, "login")
       /\ NoSuchUser(args'[p].email)
          \/ BadPassword(args'[p].email, args'[p].password)
       => /\ result'[p].kind = "Unauthorized"
          /\ result'[p].error.status_code = 401
          /\ result'[p].token = None
          /\ Done(q, "login") /\ result[q].kind = "Unauthorized"
               => Observed(result'[p]) = Observed(result[q])]_vars

\* a login for an email nobody has and a login with a wrong password for a
\* stored user have both been answered
C16_Witness ==
  \E p, q \in Procs :
    /\ Done(p, "login") /\ NoSuchUser(args[p].email)
    /\ Done(q, "login") /\ BadPassword(args[q].email, args[q].password)
    /\ Observed(result[p]) = Observed(result[q])

\* the step in which the current-user dependency of request p is resolved
Resolves(p) == cred[p] = NoCred /\ cred'[p] # NoCred

\* C17: a token that a login returned, presented not later than its expiry,
\* resolves to the user it was issued to, the stored user whose email is the
\* token's subject, and to no other.
C17_TokenResolvesToItsUser ==
  [][\A p \in Procs, i \in issued :
       Resolves(p) /\ cred'[p].token = Some(i.token) /\ utcnow <= i.token.exp
       => /\ cred'[p].user # NoUser
          /\ cred'[p].user.id = i.user
          /\ Some(cred'[p].user.email) = i.token.sub
          /\ \E u \in users : UserResponse(u) = cred'[p].user]_vars

\* with two users stored, a token issued earlier resolved to its user
C17_Witness ==
  \E p \in Procs, i \in issued :
    /\ cred[p].token = Some(i.token)
    /\ cred[p].user.id = i.user
    /\ Cardinality(users) = 2
    /\ utcnow > i.token.exp - ACCESS_TOKEN_EXPIRE_MINUTES

\* C18: a token that is malformed, or not signed with the process key, or
\* presented after its expiry instant, is refused with Unauthorized and
\* resolves to no user.
C18_BadTokenRefused ==
  [][\A p \in Procs :
       /\ Resolves(p)
       /\ ~IsNone(cred'[p].token)
       /\ LET token == Val(cred'[p].token)
          IN \/ ~token.wellformed
             \/ token.key # SECRET_KEY
             \/ utcnow > token.exp
       => /\ cred'[p].user = NoUser
          /\ pc'[p] = "done"
          /\ result'[p].kind = "Unauthorized"
          /\ result'[p].user = NoUser]_vars

\* a token that a login returned was refused after its expiry
C18_Witness ==
  \E p \in Procs, i \in issued :
    /\ pc[p] = "done"
    /\ cred[p].token = Some(i.token)
    /\ utcnow > i.token.exp
    /\ result[p].kind = "Unauthorized"

\* C19: logout changes neither table, and a token that was used to log out
\* is still accepted when presented not later than its expiry.
C19_LogoutRevokesNothing ==
  [][\A p \in Procs :
       /\ Serves(p, "logout") => users' = users /\ urls' = urls
       /\ \A i \in issued :
            /\ Resolves(p)
            /\ i.loggedout
            /\ cred'[p].token = Some(i.token)
            /\ utcnow <= i.token.exp
            => /\ cred'[p].user.id = i.user
               /\ pc'[p] = "idle"]_vars

\* a token was accepted after it had been used to log out
C19_Witness ==
  \E p \in Procs, i \in issued :
    /\ i.loggedout
    /\ cred[p].token = Some(i.token)
    /\ cred[p].route = "me"
    /\ Done(p, "me")
    /\ result[p].user.id = i.user

\* credentials that resolveToken does not accept at this time: none, or a
\* token that is malformed, signed with another key, expired, without a
\* subject, or for an email that no stored user has
Rejected(credentials) ==
  \/ IsNone(credentials)
  \/ LET token == Val(credentials)
     IN \/ ~token.wellformed
        \/ token.key # SECRET_KEY
        \/ utcnow > token.exp
        \/ IsNone(token.sub)
        \/ Val(token.sub) \notin StoredEmails

\* C20: a request to an owner-scoped route whose credentials are missing or
\* rejected ends refused in the step that resolves them, without any store
\* call of the URL service and with both tables unchanged; the URL service
\* acts for a request only as the user its credentials resolved to; without
\* credentials only resolve answers.
C20_OwnerRoutesNeedToken ==
  [][\A p \in Procs :
       /\ Resolves(p) /\ cred'[p].route \in UrlRoutes
            /\ Rejected(cred'[p].token)
          => /\ pc'[p] = "done"
             /\ result'[p].kind \in {"NotAuthenticated", "Unauthorized"}
             /\ lookups'[p] = 0 /\ draws'[p] = 0
             /\ urls' = urls /\ users' = users
       /\ op'[p] \in UrlRoutes /\ pc'[p] # "idle"
            /\ result'[p].kind \notin {"NotAuthenticated", "Unauthorized"}
          => /\ cred'[p].route = op'[p]
             /\ cred'[p].user # NoUser
             /\ args'[p].user \in {"", cred'[p].user.id}
       /\ cred'[p] = NoCred /\ pc'[p] # "idle"
          => op'[p] \in {"resolve", "register", "login"}]_vars

\* with a URL stored: a create that presented an expired token of the
\* account was refused, and a resolve without credentials was answered
C20_Witness ==
  \E i \in issued :
    /\ Done(1, "create")
    /\ cred[1].token = Some(i.token)
    /\ utcnow > i.token.exp
    /\ result[1].kind = "Unauthorized"
    /\ Done(2, "resolve")
    /\ cred[2] = NoCred
    /\ result[2].kind = "Ok"

\* C21: listByOwner(owner, page, pageSize, filters) returns the stored
\* ShortURLs of that owner that match the filters, newest first, cut to
\* positions (page-1)*pageSize+1 .. page*pageSize, with a total equal to the
\* number of the owner's ShortURLs that match the filters.
Matches(r, filter) ==
  IsNone(filter.is_active) \/ r.is_active = Val(filter.is_active)

ListByOwner(owner, page, page_size, filter) ==
  LET rows == {r \in urls : r.user_id = owner /\ Matches(r, filter)}
  IN Listing(Window(NewestFirst(rows), (page - 1) * page_size, page_size),
             Cardinality(rows))

C21_ListByOwner ==
  [][\A p \in Procs :
       Authorized(p, "list") /\ pc'[p] = "done"
       => /\ result'[p].kind = "Ok"
          /\ result'[p].listing =
               ListByOwner(args'[p].user, args'[p].page, args'[p].page_size,
                           args'[p].filter)
          /\ Len(result'[p].listing.urls) <= args'[p].page_size]_vars

\* C22: when all 5 draws at the default length 6 collide with stored codes,
\* the allocator asks the generator for a code of length 7 and tries it
\* before it gives up: a request gives up only on a draw made at length 7,
\* its sixth.
C22_EscalatesToLength7 ==
  [][\A p \in Procs :
       pc[p] = "c_gen" /\ result'[p].kind = "AllocationExhausted"
       => /\ length[p] = DefaultLength + 1
          /\ draws'[p] = MAX_RETRIES + 1]_vars

\* C23: random allocation makes at most 5 generator draws per
\* createShortURL call.  A draw that ends the loop either is the call's
\* first draw absent from the store at its check, which the call returns, or
\* is the fifth colliding one: then the call fails with AllocationExhausted,
\* and nothing is persisted and the store is unchanged.  A draw after which
\* the loop goes on collided with a stored code.
C23_AtMostFiveDraws ==
  [][\A p \in Procs :
       /\ draws'[p] <= MAX_RETRIES
       /\ pc'[p] = "c_gen" => draws'[p] < MAX_RETRIES
       /\ pc[p] = "c_gen" /\ draws'[p] # draws[p] =>
            /\ draws'[p] = draws[p] + 1
            /\ attempt[p] = draws[p]
            /\ \/ /\ pc'[p] = "c_insert"
                  /\ short_code'[p] \in Generate(DefaultLength) \ StoredCodes
                  /\ result'[p] = NoResponse
               \/ /\ pc'[p] = "c_gen"
                  /\ StoredCodes \cap Generate(DefaultLength) # {}
                  /\ result'[p] = NoResponse
               \/ /\ pc'[p] = "done"
                  /\ result'[p] = Response("AllocationExhausted", NoRow)
                  /\ draws'[p] = MAX_RETRIES
                  /\ StoredCodes \cap Generate(DefaultLength) # {}
            /\ urls' = urls
            /\ nextId' = nextId]_vars

\* one call returned a code after a collision and another one gave up after
\* five
C23_Witness ==
  \E p, q \in Procs :
    /\ Done(p, "create") /\ result[p].kind = "AllocationExhausted"
    /\ draws[p] = MAX_RETRIES
    /\ Done(q, "create") /\ result[q].kind = "Created"
    /\ draws[q] > 1

\* C24: authenticate returns InactiveAccount only for a stored user whose
\* is_active is false and whose password verified; for an inactive user with
\* a wrong password it returns Unauthorized; in neither case is a token
\* issued.
C24_InactiveAfterPassword ==
  \A p \in Procs :
    Done(p, "login") =>
      LET stored == {u \in users : u.email = args[p].email}
          verified == args[p].password = AccountPassword
      IN /\ result[p].kind = "InactiveAccount" =>
              /\ \E u \in stored : ~u.is_active
              /\ verified
              /\ result[p].error.status_code = 400
         /\ \A u \in stored :
              ~u.is_active =>
                /\ result[p].kind =
                     IF verified THEN "InactiveAccount" ELSE "Unauthorized"
                /\ result[p].token = None
                /\ \A i \in issued : i.user # u.id

\* both logins of one deactivated account have been answered: the one with
\* its password and the one with a wrong password
C24_Witness ==
  \E p, q \in Procs :
    /\ Done(p, "login") /\ result[p].kind = "InactiveAccount"
    /\ Done(q, "login") /\ result[q].kind = "Unauthorized"
    /\ args[q].email = args[p].email
    /\ args[q].password # AccountPassword
    /\ \E u \in users : u.email = args[q].email /\ ~u.is_active

\* C25: deactivation is reversible by the owner.  update applies no Gone
\* gate: the owner's update of a stored ShortURL whose is_active is false is
\* not refused and goes on to its commit.  When such an update carries
\* is_active=true and commits, the row is stored active with the click
\* counter it had, and getByCode on the code returns it again.
C25_OwnerCanReactivate ==
  [][\A p \in Procs :
       /\ LET url == GetByShortCode(args'[p].code)
          IN pc[p] = "idle" /\ op'[p] = "update" /\ url # NoRow
             /\ ~url.is_active /\ url.user_id = args'[p].user
             => pc'[p] = "u_commit" /\ result'[p] = NoResponse
       /\ pc[p] = "u_commit" /\ op[p] = "update" /\ pc'[p] = "done"
          /\ ~committed[p].is_active /\ args[p].active = Some(TRUE)
          /\ result'[p].kind = "Ok"
          => \E before \in urls, after \in urls' :
               /\ before.id = committed[p].id
               /\ after.id = committed[p].id
               /\ after.is_active
               /\ after.clicks = before.clicks
               /\ after.short_code = args[p].code
               /\ result'[p].row = after
               /\ GetUrlResponse(GetByShortCode(args[p].code))' =
                    Response("Ok", after)]_vars

\* a lookup was answered Gone, then the owner's update with is_active=true
\* was answered, and the code resolves again with the clicks recorded before
C25_Witness ==
  \E p, q \in Procs :
    /\ Done(q, "get") /\ result[q].kind = "Gone"
    /\ Done(p, "update") /\ args[p].active = Some(TRUE)
    /\ result[p].kind = "Ok"
    /\ result[p].row.is_active
    /\ result[p].row.clicks > 0
    /\ GetUrlResponse(GetByShortCode(args[p].code)) =
         Response("Ok", result[p].row)

\* C26: no operation deletes a user or changes a stored user's email,
\* password hash or active flag, and a user is stored with is_active=true;
\* so every stored user is active, and every authenticate with the email and
\* the password of a stored user returns a token.
RegisteredWith(u, email, password) ==
  /\ u.email = email
  /\ \E salt \in Salts : u.hashed_password = Hash(password, salt)

C26_UsersOnlyAdded ==
  [][/\ \A u \in users : u \in users'
     /\ \A u \in users' : u.is_active
     /\ \A u \in users' \ users : \A v \in users : v.id # u.id
     /\ \A p \in Procs :
          /\ pc[p] = "idle" /\ op'[p] = "login"
          /\ \E u \in users :
               RegisteredWith(u, args'[p].email, args'[p].password)
          => /\ result'[p].kind = "Ok"
             /\ result'[p].token # None
             /\ Val(result'[p].token).sub = Some(args'[p].email)]_vars

\* a user logged in, logged out with that token, and later logged in again
C26_Witness ==
  \E p \in Procs, i \in issued, u \in users :
    /\ Done(p, "login")
    /\ result[p].kind = "Ok"
    /\ RegisteredWith(u, args[p].email, args[p].password)
    /\ i.user = u.id
    /\ i.loggedout
    /\ Val(result[p].token).exp > i.token.exp
====
